---------------------------- MODULE Spec2Model ----------------------------
(***************************************************************************)
(* A model of the MCP protocol client (pkg/client), of the transports it   *)
(* drives (pkg/transport) as far as the client can observe them, and of    *)
(* the peer on the other end of the connection.                            *)
(*                                                                         *)
(* Every caller of the client is a process with a program counter pc[c];   *)
(* one action is one atomic step of the Go code (a critical section of     *)
(* c.mu, one atomic operation, or one call into the transport).            *)
(***************************************************************************)
EXTENDS Integers, Sequences, FiniteSets, TLC

(***************************************************************************)
(* Bounds of the model.                                                    *)
(***************************************************************************)
\* No request identifier beyond MaxReq is assigned.
MaxReq == 3
\* The number of inbound messages buffered between the peer and Receive.
MaxInbox == 2
\* The number of outbound frames buffered between Send and the write worker.
MaxOutbox == 2
\* The number of errors buffered in errorChan of the duplexed variant.
MaxErrors == 2
\* The number of containers that the container runtime lists.
MaxContainers == 2
\* The length of the port list given to DiscoverTCPServers.
MaxPorts == 3
\* The number of frames that Send accepts in the detailed model of the
\* duplexed variant.
MaxFrames == 2
\* The number of connections one duplexed transport makes there.
MaxConns == 2

(***************************************************************************)
(* Callers, transport variants, operations.                                *)
(***************************************************************************)
Callers == {"c1", "c2"}

\* The caller of the sequential specification.
SeqCallers == {"c1"}

TransportKinds == {"tcp", "stdio", "ws"}

\* The operations that follow "check initialized, sendRequest, decode".
HighLevelOps ==
    {"ListTools", "CallTool", "ListResources", "ReadResource", "ListPrompts", "GetPrompt"}

\* The wire method of each request operation.
MethodOf(o) ==
    CASE o = "Initialize"    -> "initialize"
      [] o = "ListTools"     -> "tools/list"
      [] o = "CallTool"      -> "tools/call"
      [] o = "ListResources" -> "resources/list"
      [] o = "ReadResource"  -> "resources/read"
      [] o = "ListPrompts"   -> "prompts/list"
      [] o = "GetPrompt"     -> "prompts/get"
      [] OTHER               -> ""

(***************************************************************************)
(* Identifiers.  A JSON number is kept in halves (n = 3 is the number 1.5) *)
(* so that a fractional identifier can be told from a whole one.  A string *)
(* is a sequence of one-character strings.                                 *)
(*   t = "null"    no identifier                                           *)
(*   t = "num"     a JSON number on the wire, n halves                     *)
(*   t = "float64" a decoded Go float64, n halves                          *)
(*   t = "int64", "int"  a Go integer n                                    *)
(*   t = "string"  the string s                                            *)
(*   t = "other"   any other JSON value (bool, object, array)              *)
(***************************************************************************)
NullID == [t |-> "null", n |-> 0, s |-> <<>>]
NumID(h) == [t |-> "num", n |-> h, s |-> <<>>]
FloatID(h) == [t |-> "float64", n |-> h, s |-> <<>>]
Int64ID(v) == [t |-> "int64", n |-> v, s |-> <<>>]
IntID(v) == [t |-> "int", n |-> v, s |-> <<>>]
StrID(str) == [t |-> "string", n |-> 0, s |-> str]
OtherID == [t |-> "other", n |-> 0, s |-> <<>>]

Digits == <<"0", "1", "2", "3", "4", "5", "6", "7", "8", "9">>

IsDigit(ch) == \E i \in 1..10 : Digits[i] = ch

DigitVal(ch) == (CHOOSE i \in 1..10 : Digits[i] = ch) - 1

RECURSIVE DecimalValue(_)
DecimalValue(str) ==
    IF str = <<>> THEN 0
    ELSE 10 * DecimalValue(SubSeq(str, 1, Len(str) - 1)) + DigitVal(str[Len(str)])

\* strconv.ParseInt(s, 10, 64): an optional sign, then one or more decimal digits.
ParseInt(str) ==
    LET signed == str # <<>> /\ str[1] \in {"+", "-"}
        body == IF signed THEN Tail(str) ELSE str
        ok == body # <<>> /\ \A i \in 1..Len(body) : IsDigit(body[i])
    IN  IF ~ok THEN [ok |-> FALSE, val |-> 0]
        ELSE [ok |-> TRUE,
              val |-> IF signed /\ str[1] = "-" THEN 0 - DecimalValue(body)
                      ELSE DecimalValue(body)]

\* The Go conversion int64(f) of a float64 of h halves: truncation toward zero.
TruncFloat(h) == IF h >= 0 THEN h \div 2 ELSE 0 - ((0 - h) \div 2)

isMatchingID(responseID, reqID) ==
    CASE responseID.t = "null"    -> FALSE
      [] responseID.t = "int64"   -> responseID.n = reqID
      [] responseID.t = "float64" -> TruncFloat(responseID.n) = reqID
      [] responseID.t = "int"     -> responseID.n = reqID
      [] responseID.t = "string"  ->
            LET p == ParseInt(responseID.s) IN p.ok /\ p.val = reqID
      [] OTHER                    -> FALSE

\* The number an identifier stands for, in halves; -1 when it stands for none.
\* (The decimal strings of n are the ones that ParseInt reads as n.)
IDHalves(id) ==
    CASE id.t \in {"int64", "int"}   -> 2 * id.n
      [] id.t \in {"float64", "num"} -> id.n
      [] id.t = "string"             ->
            LET p == ParseInt(id.s) IN IF p.ok THEN 2 * p.val ELSE 0 - 1
      [] OTHER                       -> 0 - 1

(***************************************************************************)
(* Messages.  result.k is "nil" (absent or null), "bad" (a JSON value that *)
(* does not decode into the typed result: a string, a number, an array) or *)
(* "obj" (an object, here with the two fields Initialize reads).  wf is    *)
(* FALSE for a line or frame that is not a JSON object at all.             *)
(***************************************************************************)
NoResult == [k |-> "nil", info |-> "", caps |-> ""]
BadResult == [k |-> "bad", info |-> "", caps |-> ""]
ObjResult(i, cp) == [k |-> "obj", info |-> i, caps |-> cp]

NoError == [set |-> FALSE, code |-> 0, message |-> "", data |-> "nil"]
ErrorInfo(code, message, data) ==
    [set |-> TRUE, code |-> code, message |-> message, data |-> data]

Message(id, method, result, error) ==
    [wf |-> TRUE, id |-> id, method |-> method, result |-> result, error |-> error]

NoMsg == [wf |-> FALSE, id |-> NullID, method |-> "", result |-> NoResult, error |-> NoError]

\* A message that the peer has sent and nobody has read: what it says is the
\* peer's choice, which shows when Receive returns it.
Unread == [wf |-> TRUE, id |-> OtherID, method |-> "?", result |-> NoResult, error |-> NoError]

\* A line that json.Unmarshal rejects.
Garbage == [wf |-> FALSE, id |-> OtherID, method |-> "", result |-> NoResult, error |-> NoError]

NewRequest(id, method) == Message(Int64ID(id), method, NoResult, NoError)

NewResponse(id, result) == Message(id, "", result, NoError)

NewErrorResponse(id, code, message, data) ==
    Message(id, "", NoResult, ErrorInfo(code, message, data))

NewNotification(method) == Message(NullID, method, NoResult, NoError)

ErrorCodeMethodNotFound == 0 - 32601
ErrorCodeInvalidParams == 0 - 32602

\* json.Unmarshal into mcp.Message: the identifier is an interface{} value, so
\* a JSON number always decodes to a float64.
Unmarshal(line) ==
    IF line.id.t = "num" THEN [line EXCEPT !.id = FloatID(line.id.n)] ELSE line

\* parseResult: nil is rejected, the rest goes through JSON into the target.
ParseOK(result) == result.k = "obj"

\* The value that GetServerInfo / GetServerCapabilities return when nothing is stored.
Nil == "nil"

(***************************************************************************)
(* Error values.  type is the dynamic type of the Go error, text what its  *)
(* Error() method returns (the pieces of the format, in order); code,      *)
(* message and data are the fields of a *client.MCPError.                  *)
(***************************************************************************)
NilError == [type |-> "nil", text |-> <<>>, code |-> 0, message |-> "", data |-> Nil]

\* errors.New(text) and fmt.Errorf(format, args...): a value with nothing but
\* its text.
Errorf(text) ==
    [type |-> "*errors.errorString", text |-> text, code |-> 0, message |-> "", data |-> Nil]

MCPError(code, message, data) ==
    [type |-> "*client.MCPError", text |-> <<message>>, code |-> code,
     message |-> message, data |-> data]

IsErrorCode(err, code) == err.type = "*client.MCPError" /\ err.code = code

\* The first piece of the text of the error an operation returns for a server
\* error.
ServerErrorPrefix(o) ==
    CASE o = "Initialize"    -> "initialize error: "
      [] o = "ListTools"     -> "list tools error: "
      [] o = "CallTool"      -> "call tool error: "
      [] o = "ListResources" -> "list resources error: "
      [] o = "ListPrompts"   -> "list prompts error: "
      [] o = "GetPrompt"     -> "get prompt error: "
      [] o = "ReadResource"  -> "read resource error: "
      [] OTHER               -> ""

\* The error value that operation o returns at its return r, response being the
\* message sendRequest gave it.
ErrorValue(o, r, response) ==
    CASE r \in {"ok", "none"}  -> NilError
      [] r = "ErrNotConnected" -> Errorf(<<"client not connected">>)
      [] r = "errServer"       -> Errorf(<<ServerErrorPrefix(o), response.error.message>>)
      [] OTHER                 -> Errorf(<<r>>)

(***************************************************************************)
(* What the peer may put on the connection.                                *)
(***************************************************************************)
PeerMsgs ==
    {NewResponse(NumID(2 * n), ObjResult("demo", "tools")) : n \in 1..MaxReq}
        \cup {NewErrorResponse(NumID(2 * n), ErrorCodeMethodNotFound, "not found", Nil) :
                 n \in 1..MaxReq}
        \cup {NewErrorResponse(NumID(2 * n), ErrorCodeInvalidParams, "not found", "detail") :
                 n \in 1..2}
        \cup {NewResponse(NumID(3), ObjResult("other", "none")),
              NewResponse(StrID(<<"2">>), ObjResult("other", "none")),
              NewResponse(NumID(2), NoResult),
              NewResponse(NumID(2), BadResult),
              NewResponse(NumID(5), ObjResult("other", "none")),
              NewResponse(StrID(<<"0", "1">>), ObjResult("other", "none")),
              NewResponse(StrID(<<"1", ".", "0">>), ObjResult("other", "none")),
              NewNotification("notifications/message"),
              Message(NumID(2), "sampling/createMessage", NoResult, NoError),
              Garbage}

\* The messages that an element of the inbound buffer can turn out to be.
Sent(m) == IF m = Unread THEN PeerMsgs ELSE {m}

(***************************************************************************)
(* State.                                                                  *)
(***************************************************************************)
VARIABLES
    \* client.Client
    connected,            \* c.connected
    initialized,          \* c.initialized
    serverInfo,           \* c.serverInfo: Nil or the stored identity
    serverCapabilities,   \* c.serverCapabilities: Nil or the stored capabilities
    requestID,            \* c.requestID
    \* the transport the client owns
    tkind,                \* which variant it is
    tconnected,           \* its connected field
    link,                 \* the connection: "none", "up" or "broken" (I/O on it fails)
    inbox,                \* what the peer sent and Receive has not returned yet
                          \* (socket or pipe buffer; readChan of the duplexed variant)
    errq,                 \* number of errors queued in errorChan (duplexed variant)
    stopClosed,           \* stopChan has been closed (duplexed variant)
    reader,               \* readLoop is running (duplexed variant)
    writeq,               \* number of frames in writeChan (duplexed variant)
    writer,               \* writeLoop is running (duplexed variant)
    pipes,                \* the pipes the process-pipe variant holds open
    proc,                 \* the process-pipe variant holds a started process
    closeLog,             \* what the last Close did: its steps, each failed or not
    \* the callers
    pc,                   \* where each caller is
    op,                   \* the operation it is in
    rid,                  \* requestID local to its sendRequest
    resp,                 \* the response sendRequest returned to it
    ret,                  \* what the operation returned
    ctxDone,              \* responseCtx of its sendRequest is done
    \* history
    pre,                  \* client and transport state when its operation was called
    io,                   \* the transport calls its operation has made
    outlog,               \* the messages its operation has passed to Send, in order
    assigned,             \* every identifier assigned, in order of assignment
    notified,             \* notifications/initialized was sent on this connection
    \* a function of the program applied to an input, outside the client
    input,                \* the arguments
    output,               \* the result
    \* discovery.Discovery probing a list of ports (DiscoverTCPServers)
    dials,                \* the outcome of each connect attempt made so far
    conns,                \* the probe connections made so far: "open" or "closed"
    servers,              \* var servers []ServerInfo
    heap,                 \* the transport instances that the constructors returned
    \* transport.WebSocketTransport with its workers, frame by frame
    wsConnected,          \* w.connected
    conn,                 \* w.conn: 0 is nil, k the k-th connection made
    live,                 \* the connections that are open
    stopChan,             \* "open" or "closed"
    writeChan,            \* the frames in w.writeChan
    readChan,             \* the frames in w.readChan
    errorChan,            \* the errors in w.errorChan
    workers,              \* the goroutines started by Connect
    accepted,             \* the frames Send has accepted, in order
    wire,                 \* the frames written to connections, in order
    nread,                \* the number of frames the read workers have read
    received              \* the frames Receive has returned, in order

clientVars == <<connected, initialized, serverInfo, serverCapabilities, requestID>>
writeVars == <<writeq, writer>>
stdioVars == <<pipes, proc>>
transportVars ==
    <<tkind, tconnected, link, inbox, errq, stopClosed, reader, writeVars, stdioVars, closeLog>>
callerVars == <<pc, op, rid, resp, ret, ctxDone>>
historyVars == <<pre, io, outlog, assigned, notified>>
probeVars == <<dials, conns, servers, heap>>
duplexVars ==
    <<wsConnected, conn, live, stopChan, writeChan, readChan, errorChan, workers,
      accepted, wire, nread, received>>
sideVars == <<input, output, probeVars, duplexVars>>
vars == <<clientVars, transportVars, callerVars, historyVars, sideVars>>

\* The getters.
IsConnected == connected
IsInitialized == initialized
GetServerInfo == serverInfo
GetServerCapabilities == serverCapabilities

Snapshot ==
    [connected |-> connected, initialized |-> initialized, serverInfo |-> serverInfo,
     serverCapabilities |-> serverCapabilities, requestID |-> requestID,
     tconnected |-> tconnected]

\* NewClient on a transport fresh from its constructor.
ClientInit ==
    /\ connected = FALSE
    /\ initialized = FALSE
    /\ serverInfo = Nil
    /\ serverCapabilities = Nil
    /\ requestID = 0
    /\ tkind \in TransportKinds
    /\ tconnected = FALSE
    /\ link = "none"
    /\ inbox = <<>>
    /\ errq = 0
    /\ stopClosed = FALSE
    /\ reader = FALSE
    /\ writeq = 0
    /\ writer = FALSE
    /\ pipes = {}
    /\ proc = FALSE
    /\ closeLog = <<>>
    /\ pc = [c \in Callers |-> "idle"]
    /\ op = [c \in Callers |-> "none"]
    /\ rid = [c \in Callers |-> 0]
    /\ resp = [c \in Callers |-> NoMsg]
    /\ ret = [c \in Callers |-> "none"]
    /\ ctxDone = [c \in Callers |-> FALSE]
    /\ pre = [c \in Callers |-> Snapshot]
    /\ io = [c \in Callers |-> {}]
    /\ outlog = [c \in Callers |-> <<>>]
    /\ assigned = <<>>
    /\ notified = FALSE

\* discovery.New: nothing probed, nothing found.
ProbeInit ==
    /\ dials = <<>>
    /\ conns = <<>>
    /\ servers = <<>>
    /\ heap = <<>>

\* NewWebSocketTransport: the four channels are made here and nowhere else.
DuplexInit ==
    /\ wsConnected = FALSE
    /\ conn = 0
    /\ live = {}
    /\ stopChan = "open"
    /\ writeChan = <<>>
    /\ readChan = <<>>
    /\ errorChan = <<>>
    /\ workers = <<>>
    /\ accepted = <<>>
    /\ wire = <<>>
    /\ nread = 0
    /\ received = <<>>

\* The client, and no function called outside it.
Init ==
    /\ ClientInit
    /\ ProbeInit
    /\ DuplexInit
    /\ input = <<>>
    /\ output = <<>>

(***************************************************************************)
(* Helpers of the actions.                                                 *)
(***************************************************************************)
\* A panic that nobody recovers ends the process.
NoPanic == \A d \in Callers : pc[d] # "panic"

\* The caller is between two operations.
Idle(c) == pc[c] \in {"idle", "done"}

\* Lock() of the transport's RWMutex waits for the RLock that a Receive in
\* progress holds.
TransportLockFree(c) == \A d \in Callers \ {c} : pc[d] # "recv"

\* A caller waits in Lock() of the transport's RWMutex: RLock() of a caller that
\* arrives after it waits until that Lock() has been granted and released.
LockAwaited == \E d \in Callers : pc[d] = "lock"

\* Identifiers still to be assigned by the calls under way.
Pending == Cardinality({d \in Callers : pc[d] \in {"chk", "req"}})

\* Entry of operation o: the locals of the call.  calls are the transport calls
\* that its first step makes.
StartCall(c, o, calls) ==
    /\ NoPanic
    /\ Idle(c)
    /\ op' = [op EXCEPT ![c] = o]
    /\ rid' = [rid EXCEPT ![c] = 0]
    /\ resp' = [resp EXCEPT ![c] = NoMsg]
    /\ ctxDone' = [ctxDone EXCEPT ![c] = FALSE]
    /\ pre' = [pre EXCEPT ![c] = Snapshot]
    /\ io' = [io EXCEPT ![c] = calls]
    /\ outlog' = [outlog EXCEPT ![c] = <<>>]
    /\ UNCHANGED sideVars

\* The operation returns r.
Return(c, r) ==
    /\ pc' = [pc EXCEPT ![c] = "done"]
    /\ ret' = [ret EXCEPT ![c] = r]

\* The operation has not returned after its first step and goes on at p.
Enter(c, p) ==
    /\ pc' = [pc EXCEPT ![c] = p]
    /\ ret' = [ret EXCEPT ![c] = "none"]

\* The operation goes on at p.
Goto(c, p) ==
    /\ pc' = [pc EXCEPT ![c] = p]
    /\ UNCHANGED ret

\* defer cancel(): sendRequest returns and releases responseCtx.
ReleaseCtx(c) == ctxDone' = [ctxDone EXCEPT ![c] = FALSE]

Did(c, what) == io' = [io EXCEPT ![c] = @ \cup {what}]

\* The operation passes message m to Send of the transport.
Passes(c, m) == outlog' = [outlog EXCEPT ![c] = Append(@, m)]

\* Send of the transport succeeds: it is connected and, on a stream, the write
\* and the flush succeed; the duplexed variant puts the frame in writeChan.
SendSucceeds ==
    /\ tconnected
    /\ IF tkind = "ws" THEN writeq < MaxOutbox ELSE link = "up"

\* Send of the duplexed variant waits: writeChan is full and its write worker
\* is about to take a frame from it.  (With no worker it gives up after
\* w.timeout and fails.)
SendWaits == tkind = "ws" /\ tconnected /\ writeq = MaxOutbox /\ writer

\* What Send does to the transport.
TransportSend ==
    /\ writeq' = IF tkind = "ws" /\ SendSucceeds THEN writeq + 1 ELSE writeq
    /\ UNCHANGED <<tkind, tconnected, link, inbox, errq, stopClosed, reader>>
    /\ UNCHANGED <<writer, stdioVars, closeLog>>

(***************************************************************************)
(* The transport, as Connect and Close drive it.                           *)
(***************************************************************************)
\* The steps of Connect of the process-pipe variant that can fail, in order.
ConnectSteps == <<"StdinPipe", "StdoutPipe", "StderrPipe", "Start">>

\* The pipes that Connect of the process-pipe variant leaves open when its
\* step number k fails: the ones it made before that step.  When Start fails,
\* os/exec closes the pipes of the command itself.
PipesLeftBy(k) ==
    CASE k = 1 -> {}
      [] k = 2 -> {"stdin"}
      [] k = 3 -> {"stdin", "stdout"}
      [] OTHER -> {}

\* Connect of a transport that is not connected, the dial (or the start of the
\* child process) succeeding.  A stream variant gets a new buffered reader; the
\* duplexed variant keeps readChan, writeChan, errorChan and stopChan of its
\* constructor and starts its workers; the read worker returns at once when
\* stopChan is closed.
TransportDial ==
    /\ tconnected' = TRUE
    /\ link' = "up"
    /\ inbox' = IF tkind = "ws" THEN inbox ELSE <<>>
    /\ reader' = (tkind = "ws" /\ ~stopClosed)
    /\ writer' = (tkind = "ws")
    /\ pipes' = IF tkind = "stdio" THEN {"stdin", "stdout", "stderr"} ELSE pipes
    /\ proc' = (tkind = "stdio")
    /\ closeLog' = <<>>
    /\ notified' = FALSE
    /\ UNCHANGED <<tkind, errq, stopClosed, writeq>>

\* Connect of a transport that is not connected fails: the dial fails, or a
\* step of the process-pipe variant does.
TransportDialFails ==
    /\ IF tkind = "stdio"
       THEN \E k \in 1..Len(ConnectSteps) : pipes' = PipesLeftBy(k)
       ELSE pipes' = pipes
    /\ UNCHANGED <<tkind, tconnected, link, inbox, errq, stopClosed, reader>>
    /\ UNCHANGED <<writeVars, proc, closeLog, notified>>

\* The steps of Close of a connected transport, in the order of the code.
\* Each closes one resource; reports says whether Close keeps the step's error.
CloseSteps ==
    IF tkind = "stdio"
    THEN <<[step |-> "stdin", reports |-> TRUE],
           [step |-> "stdout", reports |-> TRUE],
           [step |-> "stderr", reports |-> TRUE],
           [step |-> "kill", reports |-> TRUE],
           [step |-> "wait", reports |-> FALSE]>>
    ELSE <<[step |-> "conn", reports |-> TRUE]>>

\* The log of a Close whose steps in fails fail: every step runs.
CloseLogOf(fails) ==
    [i \in 1..Len(CloseSteps) |->
        [step |-> CloseSteps[i].step, failed |-> CloseSteps[i].step \in fails]]

\* The error Close returns: non-nil when errs is not empty.
CloseError(log) ==
    \E i \in 1..Len(log) : log[i].failed /\ CloseSteps[i].reports

\* Close of a connected transport.  The duplexed variant closes stopChan; its
\* read worker, if running, either sees stopChan or fails in ReadMessage on the
\* closed connection and queues that error.
TransportClose ==
    /\ tconnected' = FALSE
    /\ link' = "none"
    /\ inbox' = IF tkind = "ws" THEN inbox ELSE <<>>
    /\ reader' = FALSE
    /\ stopClosed' = (stopClosed \/ tkind = "ws")
    /\ \/ errq' = errq
       \/ reader /\ errq < MaxErrors /\ errq' = errq + 1
    /\ pipes' = {}
    /\ proc' = FALSE
    /\ \E fails \in SUBSET {CloseSteps[i].step : i \in 1..Len(CloseSteps)} :
          closeLog' = CloseLogOf(fails)
    /\ notified' = FALSE
    /\ UNCHANGED <<tkind, writeVars>>

\* close(w.stopChan) of a channel that is already closed.
ClosePanics == tkind = "ws" /\ tconnected /\ stopClosed

(***************************************************************************)
(* Client.Connect, one critical section of c.mu.                           *)
(***************************************************************************)
\* As Connect, but the transport dials again when it is connected already.
Connect_Redials(c) ==
    \/ /\ connected
       /\ StartCall(c, "Connect", {})
       /\ Return(c, "ok")
       /\ UNCHANGED <<clientVars, transportVars, assigned, notified>>
    \/ /\ ~connected
       /\ TransportLockFree(c)
       /\ StartCall(c, "Connect", {"connect"})
       /\ \/ /\ TransportDial
             /\ connected' = TRUE
             /\ Return(c, "ok")
          \/ /\ ~tconnected
             /\ TransportDialFails
             /\ Return(c, "errConnect")
             /\ UNCHANGED connected
       /\ UNCHANGED <<initialized, serverInfo, serverCapabilities, requestID, assigned>>

Connect(c) ==
    \/ /\ connected
       /\ StartCall(c, "Connect", {})
       /\ Return(c, "ok")
       /\ UNCHANGED <<clientVars, transportVars, assigned, notified>>
    \/ /\ ~connected
       /\ tconnected
       /\ TransportLockFree(c)
       /\ StartCall(c, "Connect", {"connect"})
       /\ connected' = TRUE
       /\ Return(c, "ok")
       /\ UNCHANGED <<initialized, serverInfo, serverCapabilities, requestID>>
       /\ UNCHANGED <<transportVars, assigned, notified>>
    \/ /\ ~connected
       /\ ~tconnected
       /\ TransportLockFree(c)
       /\ StartCall(c, "Connect", {"connect"})
       /\ \/ /\ TransportDial
             /\ connected' = TRUE
             /\ Return(c, "ok")
          \/ /\ TransportDialFails
             /\ Return(c, "errConnect")
             /\ UNCHANGED connected
       /\ UNCHANGED <<initialized, serverInfo, serverCapabilities, requestID, assigned>>

(***************************************************************************)
(* Client.Disconnect, one critical section of c.mu.                        *)
(***************************************************************************)
Disconnect(c) ==
    \/ /\ ~connected
       /\ StartCall(c, "Disconnect", {})
       /\ Return(c, "ok")
       /\ UNCHANGED <<clientVars, transportVars, assigned, notified>>
    \/ /\ connected
       /\ TransportLockFree(c)
       /\ StartCall(c, "Disconnect", {"close"})
       /\ IF ClosePanics
          THEN /\ pc' = [pc EXCEPT ![c] = "panic"]
               /\ ret' = [ret EXCEPT ![c] = "none"]
               /\ UNCHANGED <<clientVars, transportVars, notified>>
          ELSE /\ IF tconnected
                  THEN /\ TransportClose
                       /\ Return(c, IF CloseError(closeLog') THEN "errClose" ELSE "ok")
                  ELSE /\ Return(c, "ok")
                       /\ UNCHANGED <<transportVars, notified>>
               /\ connected' = FALSE
               /\ initialized' = FALSE
               /\ serverInfo' = Nil
               /\ serverCapabilities' = Nil
               /\ UNCHANGED requestID
       /\ UNCHANGED assigned

(***************************************************************************)
(* Client.Initialize and the high-level operations, up to sendRequest.     *)
(***************************************************************************)
\* As Initialize, but the check asks the transport instead of the client.
Initialize_AsksTransport(c) ==
    /\ StartCall(c, "Initialize", {})
    /\ IF ~tconnected
       THEN Return(c, "ErrNotConnected")
       ELSE requestID + Pending < MaxReq /\ Enter(c, "req")
    /\ UNCHANGED <<clientVars, transportVars, assigned, notified>>

\* if !c.IsConnected() { return ErrNotConnected }
Initialize(c) ==
    /\ StartCall(c, "Initialize", {})
    /\ IF ~IsConnected
       THEN Return(c, "ErrNotConnected")
       ELSE requestID + Pending < MaxReq /\ Enter(c, "req")
    /\ UNCHANGED <<clientVars, transportVars, assigned, notified>>

\* As HighLevelOp, but the check is IsConnected instead of IsInitialized.
HighLevelOp_ChecksConnected(c, o) ==
    /\ StartCall(c, o, {})
    /\ IF ~IsConnected
       THEN Return(c, "errNotInitialized")
       ELSE /\ requestID + Pending < MaxReq
            /\ Enter(c, IF o = "CallTool" THEN "chk" ELSE "req")
    /\ UNCHANGED <<clientVars, transportVars, assigned, notified>>

\* if !c.IsInitialized() { return nil, fmt.Errorf("client not initialized") }
HighLevelOp(c, o) ==
    /\ StartCall(c, o, {})
    /\ IF ~IsInitialized
       THEN Return(c, "errNotInitialized")
       ELSE /\ requestID + Pending < MaxReq
            /\ Enter(c, IF o = "CallTool" THEN "chk" ELSE "req")
    /\ UNCHANGED <<clientVars, transportVars, assigned, notified>>

\* As CheckConnection, but a transport that is not connected clears the
\* connected flag only.
CheckConnection_KeepsInitialized(c) ==
    /\ NoPanic
    /\ pc[c] = "chk"
    /\ IF ~tconnected
       THEN /\ connected' = FALSE
            /\ Return(c, "errConnectionCheck")
            /\ UNCHANGED initialized
       ELSE /\ Goto(c, "req")
            /\ UNCHANGED <<connected, initialized>>
    /\ UNCHANGED <<serverInfo, serverCapabilities, requestID, transportVars>>
    /\ UNCHANGED <<op, sideVars, rid, resp, ctxDone, historyVars>>

\* CallTool: c.CheckConnection(), one critical section of c.mu.
CheckConnection(c) ==
    /\ NoPanic
    /\ pc[c] = "chk"
    /\ IF ~tconnected
       THEN /\ connected' = FALSE
            /\ initialized' = FALSE
            /\ Return(c, "errConnectionCheck")
       ELSE /\ Goto(c, "req")
            /\ UNCHANGED <<connected, initialized>>
    /\ UNCHANGED <<serverInfo, serverCapabilities, requestID, transportVars>>
    /\ UNCHANGED <<op, sideVars, rid, resp, ctxDone, historyVars>>

(***************************************************************************)
(* Client.sendRequest.                                                     *)
(***************************************************************************)
\* As AssignRequestID, but the counter is read when the operation is called and
\* written back here: a read-modify-write that is not atomic.
AssignRequestID_NotAtomic(c) ==
    /\ NoPanic
    /\ pc[c] = "req"
    /\ requestID' = pre[c].requestID + 1
    /\ rid' = [rid EXCEPT ![c] = pre[c].requestID + 1]
    /\ assigned' = Append(assigned, pre[c].requestID + 1)
    /\ Goto(c, "tchk")
    /\ UNCHANGED <<connected, initialized, serverInfo, serverCapabilities>>
    /\ UNCHANGED <<transportVars, op, sideVars, resp, ctxDone, pre, io, outlog, notified>>

\* requestID := atomic.AddInt64(&c.requestID, 1)
AssignRequestID(c) ==
    /\ NoPanic
    /\ pc[c] = "req"
    /\ requestID' = requestID + 1
    /\ rid' = [rid EXCEPT ![c] = requestID + 1]
    /\ assigned' = Append(assigned, requestID + 1)
    /\ Goto(c, "tchk")
    /\ UNCHANGED <<connected, initialized, serverInfo, serverCapabilities>>
    /\ UNCHANGED <<transportVars, op, sideVars, resp, ctxDone, pre, io, outlog, notified>>

\* if !c.transport.IsConnected() { return nil, fmt.Errorf("transport disconnected") }
CheckTransport(c) ==
    /\ NoPanic
    /\ pc[c] = "tchk"
    /\ ~LockAwaited
    /\ IF ~tconnected THEN Return(c, "errTransportDisconnected") ELSE Goto(c, "send")
    /\ UNCHANGED <<clientVars, transportVars, op, sideVars, rid, resp, ctxDone, historyVars>>

\* c.transport.Send(request)
SendRequest(c) ==
    /\ NoPanic
    /\ pc[c] = "send"
    /\ ~LockAwaited
    /\ ~SendWaits
    /\ Did(c, "send")
    /\ Passes(c, NewRequest(rid[c], MethodOf(op[c])))
    /\ TransportSend
    /\ IF SendSucceeds
       THEN Goto(c, "loop")
       ELSE /\ pc' = [pc EXCEPT ![c] = "markdisc"]
            /\ ret' = [ret EXCEPT ![c] = "errSend"]
    /\ UNCHANGED <<clientVars, op, sideVars, rid, resp, ctxDone>>
    /\ UNCHANGED <<pre, assigned, notified>>

\* As MarkDisconnected, but the initialized flag is left as it is.
MarkDisconnected_KeepsInitialized(c) ==
    /\ NoPanic
    /\ pc[c] = "markdisc"
    /\ connected' = FALSE
    /\ pc' = [pc EXCEPT ![c] = "done"]
    /\ UNCHANGED <<initialized, serverInfo, serverCapabilities, requestID, transportVars>>
    /\ UNCHANGED <<op, sideVars, rid, resp, ret, ctxDone, historyVars>>

\* Mark client as disconnected if send or receive fails.
MarkDisconnected(c) ==
    /\ NoPanic
    /\ pc[c] = "markdisc"
    /\ connected' = FALSE
    /\ initialized' = FALSE
    /\ pc' = [pc EXCEPT ![c] = "done"]
    /\ UNCHANGED <<serverInfo, serverCapabilities, requestID, transportVars>>
    /\ UNCHANGED <<op, sideVars, rid, resp, ret, ctxDone, historyVars>>

\* As RequestTimeout, but the timeout marks the client disconnected the way a
\* failed Send or Receive does.
RequestTimeout_Disconnects(c) ==
    /\ NoPanic
    /\ pc[c] = "loop"
    /\ ctxDone[c]
    /\ connected' = FALSE
    /\ initialized' = FALSE
    /\ Return(c, "errTimeout")
    /\ ReleaseCtx(c)
    /\ UNCHANGED <<serverInfo, serverCapabilities, requestID>>
    /\ UNCHANGED <<transportVars, op, sideVars, rid, resp, historyVars>>

\* case <-responseCtx.Done(): return nil, fmt.Errorf("request timeout")
RequestTimeout(c) ==
    /\ NoPanic
    /\ pc[c] = "loop"
    /\ ctxDone[c]
    /\ Return(c, "errTimeout")
    /\ ReleaseCtx(c)
    /\ UNCHANGED <<clientVars, transportVars, op, sideVars, rid, resp, historyVars>>

\* default: the call of c.transport.Receive() begins.
EnterReceive(c) ==
    /\ NoPanic
    /\ pc[c] = "loop"
    /\ ~ctxDone[c]
    /\ ~LockAwaited
    /\ Did(c, "recv")
    /\ Goto(c, "recv")
    /\ UNCHANGED <<clientVars, transportVars, op, sideVars, rid, resp, ctxDone>>
    /\ UNCHANGED <<pre, outlog, assigned, notified>>

\* Receive returns the next line or frame; the loop matches it or drops it.
ReceiveMessage(c) ==
    /\ NoPanic
    /\ pc[c] = "recv"
    /\ tconnected
    /\ inbox # <<>>
    /\ inbox' = Tail(inbox)
    /\ \E line \in Sent(Head(inbox)) :
       LET response == Unmarshal(line)
       IN  IF ~line.wf
           THEN /\ pc' = [pc EXCEPT ![c] = "markdisc"]
                /\ ret' = [ret EXCEPT ![c] = "errReceive"]
                /\ ReleaseCtx(c)
                /\ UNCHANGED resp
           ELSE IF isMatchingID(response.id, rid[c])
                THEN /\ resp' = [resp EXCEPT ![c] = response]
                     /\ Goto(c, "got")
                     /\ ReleaseCtx(c)
                ELSE /\ Goto(c, "loop")
                     /\ UNCHANGED <<resp, ctxDone>>
    /\ UNCHANGED <<clientVars, tkind, tconnected, link, errq, stopClosed, reader>>
    /\ UNCHANGED <<writeVars, stdioVars, closeLog>>
    /\ UNCHANGED <<op, sideVars, rid, historyVars>>

\* Receive fails: the transport is not connected, the read fails on a broken
\* stream, or (duplexed variant) an error is taken from errorChan.
ReceiveError(c) ==
    /\ NoPanic
    /\ pc[c] = "recv"
    /\ \/ /\ ~tconnected
          /\ UNCHANGED errq
       \/ /\ tconnected
          /\ tkind # "ws"
          /\ inbox = <<>>
          /\ link = "broken"
          /\ UNCHANGED errq
       \/ /\ tconnected
          /\ tkind = "ws"
          /\ errq > 0
          /\ errq' = errq - 1
    /\ pc' = [pc EXCEPT ![c] = "markdisc"]
    /\ ret' = [ret EXCEPT ![c] = "errReceive"]
    /\ ReleaseCtx(c)
    /\ UNCHANGED <<clientVars, tkind, tconnected, link, inbox, stopClosed, reader>>
    /\ UNCHANGED <<writeVars, stdioVars, closeLog>>
    /\ UNCHANGED <<op, sideVars, rid, resp, historyVars>>

\* Duplexed variant: case <-time.After(w.timeout), with nothing in readChan
\* and nothing in errorChan for that long.
ReceiveTimesOut(c) ==
    /\ NoPanic
    /\ pc[c] = "recv"
    /\ tconnected
    /\ tkind = "ws"
    /\ inbox = <<>>
    /\ errq = 0
    /\ pc' = [pc EXCEPT ![c] = "markdisc"]
    /\ ret' = [ret EXCEPT ![c] = "errReceive"]
    /\ ReleaseCtx(c)
    /\ UNCHANGED <<clientVars, transportVars, op, sideVars, rid, resp, historyVars>>

(***************************************************************************)
(* After sendRequest returned a response.                                  *)
(***************************************************************************)
\* As HandleResponse, but Initialize does not store the capabilities.
HandleResponse_DropsCapabilities(c) ==
    /\ NoPanic
    /\ pc[c] = "got"
    /\ IF resp[c].error.set
       THEN /\ Return(c, "errServer")
            /\ UNCHANGED clientVars
       ELSE IF ~ParseOK(resp[c].result)
            THEN /\ Return(c, "errParse")
                 /\ UNCHANGED clientVars
            ELSE IF op[c] = "Initialize"
                 THEN /\ serverInfo' = resp[c].result.info
                      /\ initialized' = TRUE
                      /\ Goto(c, "notify")
                      /\ UNCHANGED <<connected, requestID, serverCapabilities>>
                 ELSE /\ Return(c, "ok")
                      /\ UNCHANGED clientVars
    /\ UNCHANGED <<transportVars, op, sideVars, rid, resp, ctxDone, historyVars>>

\* As HandleResponse, but Initialize goes on to its notification when the
\* response carries an error.
HandleResponse_NotifiesOnError(c) ==
    /\ NoPanic
    /\ pc[c] = "got"
    /\ IF resp[c].error.set /\ op[c] # "Initialize"
       THEN /\ Return(c, "errServer")
            /\ UNCHANGED clientVars
       ELSE IF ~resp[c].error.set /\ ~ParseOK(resp[c].result)
            THEN /\ Return(c, "errParse")
                 /\ UNCHANGED clientVars
            ELSE IF op[c] = "Initialize"
                 THEN /\ serverInfo' = resp[c].result.info
                      /\ serverCapabilities' = resp[c].result.caps
                      /\ initialized' = TRUE
                      /\ Goto(c, "notify")
                      /\ UNCHANGED <<connected, requestID>>
                 ELSE /\ Return(c, "ok")
                      /\ UNCHANGED clientVars
    /\ UNCHANGED <<transportVars, op, sideVars, rid, resp, ctxDone, historyVars>>

\* As HandleResponse, but a server error is handled the way a failed Receive is.
HandleResponse_ErrorDisconnects(c) ==
    /\ NoPanic
    /\ pc[c] = "got"
    /\ IF resp[c].error.set
       THEN /\ Return(c, "errServer")
            /\ connected' = FALSE
            /\ initialized' = FALSE
            /\ UNCHANGED <<serverInfo, serverCapabilities, requestID>>
       ELSE IF ~ParseOK(resp[c].result)
            THEN /\ Return(c, "errParse")
                 /\ UNCHANGED clientVars
            ELSE IF op[c] = "Initialize"
                 THEN /\ serverInfo' = resp[c].result.info
                      /\ serverCapabilities' = resp[c].result.caps
                      /\ initialized' = TRUE
                      /\ Goto(c, "notify")
                      /\ UNCHANGED <<connected, requestID>>
                 ELSE /\ Return(c, "ok")
                      /\ UNCHANGED clientVars
    /\ UNCHANGED <<transportVars, op, sideVars, rid, resp, ctxDone, historyVars>>

\* response.Error != nil, then parseResult; Initialize stores the result in a
\* critical section of c.mu, the other operations return it.
HandleResponse(c) ==
    /\ NoPanic
    /\ pc[c] = "got"
    /\ IF resp[c].error.set
       THEN /\ Return(c, "errServer")
            /\ UNCHANGED clientVars
       ELSE IF ~ParseOK(resp[c].result)
            THEN /\ Return(c, "errParse")
                 /\ UNCHANGED clientVars
            ELSE IF op[c] = "Initialize"
                 THEN /\ serverInfo' = resp[c].result.info
                      /\ serverCapabilities' = resp[c].result.caps
                      /\ initialized' = TRUE
                      /\ Goto(c, "notify")
                      /\ UNCHANGED <<connected, requestID>>
                 ELSE /\ Return(c, "ok")
                      /\ UNCHANGED clientVars
    /\ UNCHANGED <<transportVars, op, sideVars, rid, resp, ctxDone, historyVars>>

\* Initialize: c.transport.Send(notification)
SendInitialized(c) ==
    /\ NoPanic
    /\ pc[c] = "notify"
    /\ ~LockAwaited
    /\ ~SendWaits
    /\ Did(c, "send")
    /\ Passes(c, NewNotification("notifications/initialized"))
    /\ TransportSend
    /\ IF SendSucceeds
       THEN /\ Return(c, "ok")
            /\ notified' = TRUE
       ELSE /\ Return(c, "errNotification")
            /\ UNCHANGED notified
    /\ UNCHANGED <<clientVars, op, sideVars, rid, resp, ctxDone, pre, assigned>>

(***************************************************************************)
(* The environment: the peer, the connection, the clock.                   *)
(***************************************************************************)
\* The peer sends a message.  On the duplexed variant the read worker moves the
\* frame from the connection to readChan.
PeerSend(m) ==
    /\ NoPanic
    /\ link = "up"
    /\ tkind = "ws" => reader
    /\ Len(inbox) < MaxInbox
    /\ inbox' = Append(inbox, m)
    /\ UNCHANGED <<clientVars, tkind, tconnected, link, errq, stopClosed, reader>>
    /\ UNCHANGED <<writeVars, stdioVars, closeLog>>
    /\ UNCHANGED <<callerVars, historyVars, sideVars>>

\* The connection fails (the peer closes it, the child process exits, the
\* network drops).  The read worker of the duplexed variant, if running, gets
\* the read error, queues it in errorChan and returns; with errorChan full it
\* stays blocked in that send.
LinkBreaks ==
    /\ NoPanic
    /\ link = "up"
    /\ link' = "broken"
    /\ reader' = (reader /\ errq = MaxErrors)
    /\ errq' = IF reader /\ errq < MaxErrors THEN errq + 1 ELSE errq
    /\ UNCHANGED <<clientVars, tkind, tconnected, inbox, stopClosed>>
    /\ UNCHANGED <<writeVars, stdioVars, closeLog>>
    /\ UNCHANGED <<callerVars, historyVars, sideVars>>

\* writeLoop takes a frame from writeChan and writes it to the connection.  The
\* write fails on a connection that has failed or that Close has closed; the
\* worker then queues the error in errorChan and returns.
WriteLoop ==
    /\ NoPanic
    /\ writer
    /\ writeq > 0
    /\ (tconnected /\ link = "up") \/ errq < MaxErrors
    /\ writeq' = writeq - 1
    /\ IF tconnected /\ link = "up"
       THEN UNCHANGED <<writer, errq>>
       ELSE /\ writer' = FALSE
            /\ errq' = errq + 1
    /\ UNCHANGED <<clientVars, tkind, tconnected, link, inbox, stopClosed, reader>>
    /\ UNCHANGED <<stdioVars, closeLog>>
    /\ UNCHANGED <<callerVars, historyVars, sideVars>>

\* writeLoop takes case <-w.stopChan and returns.
WriterStops ==
    /\ NoPanic
    /\ writer
    /\ stopClosed
    /\ writer' = FALSE
    /\ UNCHANGED <<clientVars, tkind, tconnected, link, inbox, errq, stopClosed, reader>>
    /\ UNCHANGED <<writeq, stdioVars, closeLog>>
    /\ UNCHANGED <<callerVars, historyVars, sideVars>>

\* The deadline of responseCtx passes.
DeadlineExpires(c) ==
    /\ NoPanic
    /\ pc[c] \in {"loop", "recv"}
    /\ ~ctxDone[c]
    /\ ctxDone' = [ctxDone EXCEPT ![c] = TRUE]
    /\ UNCHANGED <<clientVars, transportVars, pc, op, sideVars, rid, resp, ret, historyVars>>

(***************************************************************************)
(* Specifications.                                                         *)
(***************************************************************************)
\* The steps of caller c inside an operation.
InCallStep(c) ==
    \/ CheckConnection(c)
    \/ AssignRequestID(c)
    \/ CheckTransport(c)
    \/ SendRequest(c)
    \/ MarkDisconnected(c)
    \/ RequestTimeout(c)
    \/ EnterReceive(c)
    \/ ReceiveMessage(c)
    \/ ReceiveError(c)
    \/ ReceiveTimesOut(c)
    \/ HandleResponse(c)
    \/ SendInitialized(c)

\* Caller c calls one of the operations ops, or goes on in the one it is in.
CallerStep(c, ops) ==
    \/ Connect(c)
    \/ Disconnect(c)
    \/ Initialize(c)
    \/ \E o \in ops : HighLevelOp(c, o)
    \/ InCallStep(c)

\* One caller at a time.
Next ==
    \/ \E c \in SeqCallers : CallerStep(c, HighLevelOps)
    \/ \E c \in SeqCallers : DeadlineExpires(c)
    \/ PeerSend(Unread)
    \/ LinkBreaks
    \/ WriteLoop
    \/ WriterStops

Spec == Init /\ [][Next]_vars

(***************************************************************************)
(* Two callers share one client on a stream transport: c1 connects,        *)
(* initializes, disconnects and issues requests, c2 issues requests at the *)
(* same time.  The peer answers with well-formed responses.                *)
(***************************************************************************)
ConcOps == {"ListTools"}

ConcPeerMsgs == {NewResponse(NumID(2 * n), ObjResult("demo", "tools")) : n \in 1..2}

ConcInit == Init /\ tkind = "tcp"

ConcNext ==
    \/ \E c \in SeqCallers : Connect(c)
    \/ \E c \in SeqCallers : Disconnect(c)
    \/ \E c \in SeqCallers : Initialize(c)
    \/ \E c \in Callers : \E o \in ConcOps : HighLevelOp(c, o)
    \/ \E c \in Callers : AssignRequestID(c)
    \/ \E c \in Callers : CheckTransport(c)
    \/ \E c \in Callers : SendRequest(c)
    \/ \E c \in Callers : MarkDisconnected(c)
    \/ \E c \in Callers : RequestTimeout(c)
    \/ \E c \in Callers : EnterReceive(c)
    \/ \E c \in Callers : ReceiveMessage(c)
    \/ \E c \in Callers : ReceiveError(c)
    \/ \E c \in Callers : HandleResponse(c)
    \/ \E c \in Callers : SendInitialized(c)
    \/ \E c \in Callers : DeadlineExpires(c)
    \/ \E m \in ConcPeerMsgs : PeerSend(m)
    \/ LinkBreaks

ConcSpec == ConcInit /\ [][ConcNext]_vars

(***************************************************************************)
(* The scheduler runs every caller that can take a step inside its         *)
(* operation, and a finite deadline passes.  Nothing makes a caller call   *)
(* again, and nothing makes the peer send or the connection fail.          *)
(***************************************************************************)
FairSpec ==
    /\ Spec
    /\ \A c \in SeqCallers : WF_vars(InCallStep(c))
    /\ \A c \in SeqCallers : WF_vars(DeadlineExpires(c))

(***************************************************************************)
(* The transport used directly, without a client: one caller calls         *)
(* Connect, Send and Close of the transport in any order.                  *)
(***************************************************************************)
\* Transport.Connect
TransportConnect(c) ==
    /\ TransportLockFree(c)
    /\ StartCall(c, "Transport.Connect", {"connect"})
    /\ IF tconnected
       THEN /\ Return(c, "ok")
            /\ UNCHANGED <<transportVars, notified>>
       ELSE \/ /\ TransportDial
               /\ Return(c, "ok")
            \/ /\ TransportDialFails
               /\ Return(c, "errConnect")
    /\ UNCHANGED <<clientVars, assigned>>

\* Transport.Send
TransportSendCall(c) ==
    /\ StartCall(c, "Transport.Send", {"send"})
    /\ ~SendWaits
    /\ TransportSend
    /\ Return(c, IF SendSucceeds THEN "ok" ELSE "errSend")
    /\ UNCHANGED <<clientVars, assigned, notified>>

\* Transport.Close
TransportCloseCall(c) ==
    /\ TransportLockFree(c)
    /\ StartCall(c, "Transport.Close", {"close"})
    /\ IF ~tconnected
       THEN /\ Return(c, "ok")
            /\ UNCHANGED <<transportVars, notified>>
       ELSE IF ClosePanics
            THEN /\ pc' = [pc EXCEPT ![c] = "panic"]
                 /\ ret' = [ret EXCEPT ![c] = "none"]
                 /\ UNCHANGED <<transportVars, notified>>
            ELSE /\ TransportClose
                 /\ Return(c, IF CloseError(closeLog') THEN "errClose" ELSE "ok")
    /\ UNCHANGED <<clientVars, assigned>>

TransportNext ==
    \/ \E c \in SeqCallers : TransportConnect(c)
    \/ \E c \in SeqCallers : TransportSendCall(c)
    \/ \E c \in SeqCallers : TransportCloseCall(c)
    \/ LinkBreaks
    \/ WriteLoop
    \/ WriterStops

TransportSpec == Init /\ [][TransportNext]_vars

(***************************************************************************)
(* The application keeps the transport it gave to NewClient and closes it  *)
(* itself, between two operations of the client.                           *)
(***************************************************************************)
OwnerNext ==
    \/ \E c \in SeqCallers : Connect(c)
    \/ \E c \in SeqCallers : Initialize(c)
    \/ \E c \in SeqCallers : HighLevelOp(c, "CallTool")
    \/ \E c \in SeqCallers : InCallStep(c)
    \/ \E c \in SeqCallers : TransportCloseCall(c)
    \/ \E c \in SeqCallers : DeadlineExpires(c)
    \/ PeerSend(Unread)
    \/ LinkBreaks
    \/ WriteLoop
    \/ WriterStops

OwnerSpec == Init /\ [][OwnerNext]_vars

(***************************************************************************)
(* Two threads share one client on a stream transport: c1 connects and     *)
(* disconnects the client and closes the transport, c2 initializes at the  *)
(* same time.                                                              *)
(***************************************************************************)
\* Transport.Close is called: t.mu.Lock() is requested.
CloseInvoked(c) ==
    /\ StartCall(c, "Transport.Close", {})
    /\ Enter(c, "lock")
    /\ UNCHANGED <<clientVars, transportVars, assigned, notified>>

\* t.mu.Lock() is granted when no Receive holds the read lock; the body of
\* Close runs and Close returns.
CloseLocked(c) ==
    /\ NoPanic
    /\ pc[c] = "lock"
    /\ TransportLockFree(c)
    /\ Did(c, "close")
    /\ IF ~tconnected
       THEN /\ Return(c, "ok")
            /\ UNCHANGED <<transportVars, notified>>
       ELSE IF ClosePanics
            THEN /\ pc' = [pc EXCEPT ![c] = "panic"]
                 /\ UNCHANGED <<ret, transportVars, notified>>
            ELSE /\ TransportClose
                 /\ Return(c, IF CloseError(closeLog') THEN "errClose" ELSE "ok")
    /\ UNCHANGED <<clientVars, op, sideVars, rid, resp, ctxDone, pre, outlog, assigned>>

\* The steps of sendRequest and of Initialize after it, for caller c.
RaceCallStep(c) ==
    \/ AssignRequestID(c)
    \/ CheckTransport(c)
    \/ SendRequest(c)
    \/ MarkDisconnected(c)
    \/ RequestTimeout(c)
    \/ EnterReceive(c)
    \/ ReceiveMessage(c)
    \/ ReceiveError(c)
    \/ HandleResponse(c)
    \/ SendInitialized(c)

RaceInit == Init /\ tkind \in {"tcp", "stdio"}

RaceNext ==
    \/ Connect("c1")
    \/ Disconnect("c1")
    \/ CloseInvoked("c1")
    \/ CloseLocked("c1")
    \/ Initialize("c2")
    \/ RaceCallStep("c2")
    \/ DeadlineExpires("c2")
    \/ PeerSend(Unread)
    \/ LinkBreaks

RaceSpec == RaceInit /\ [][RaceNext]_vars

\* The scheduler runs a thread that can take a step, a mutex that stays free is
\* granted to the thread waiting for it, and a finite deadline passes.  Nothing
\* makes the peer send or the connection fail.
RaceFairSpec ==
    /\ RaceSpec
    /\ WF_vars(CloseLocked("c1"))
    /\ WF_vars(RaceCallStep("c2"))
    /\ WF_vars(DeadlineExpires("c2"))

(***************************************************************************)
(* Discovery.TestConnection on the descriptor of this transport, among     *)
(* direct calls of the transport.                                          *)
(***************************************************************************)
\* err := server.Transport.Connect(testCtx); if err != nil { return false }
TestConnection(c) ==
    /\ TransportLockFree(c)
    /\ StartCall(c, "TestConnection", {"connect"})
    /\ IF tconnected
       THEN /\ Enter(c, "deferred")
            /\ UNCHANGED <<transportVars, notified>>
       ELSE \/ /\ TransportDial
               /\ Enter(c, "deferred")
            \/ /\ TransportDialFails
               /\ Return(c, "false")
    /\ UNCHANGED <<clientVars, assigned>>

\* return true, with defer server.Transport.Close(): the deferred call runs
\* before TestConnection returns, and what Close returns is dropped.
TestConnectionClose(c) ==
    /\ NoPanic
    /\ pc[c] = "deferred"
    /\ TransportLockFree(c)
    /\ Did(c, "close")
    /\ IF ~tconnected
       THEN /\ Return(c, "true")
            /\ UNCHANGED <<transportVars, notified>>
       ELSE IF ClosePanics
            THEN /\ pc' = [pc EXCEPT ![c] = "panic"]
                 /\ UNCHANGED <<ret, transportVars, notified>>
            ELSE /\ TransportClose
                 /\ Return(c, "true")
    /\ UNCHANGED <<clientVars, op, sideVars, rid, resp, ctxDone, pre, outlog, assigned>>

TestNext ==
    \/ \E c \in SeqCallers : TestConnection(c)
    \/ \E c \in SeqCallers : TestConnectionClose(c)
    \/ TransportNext

TestSpec == Init /\ [][TestNext]_vars

(***************************************************************************)
(* Discovery.TestConnection on the descriptor of the transport that a      *)
(* client uses, between two operations of the client.                      *)
(***************************************************************************)
SharedNext ==
    \/ \E c \in SeqCallers : Connect(c)
    \/ \E c \in SeqCallers : Initialize(c)
    \/ \E c \in SeqCallers : HighLevelOp(c, "CallTool")
    \/ \E c \in SeqCallers : InCallStep(c)
    \/ \E c \in SeqCallers : TestConnection(c)
    \/ \E c \in SeqCallers : TestConnectionClose(c)
    \/ \E c \in SeqCallers : DeadlineExpires(c)
    \/ PeerSend(Unread)
    \/ LinkBreaks
    \/ WriteLoop
    \/ WriterStops

SharedSpec == Init /\ [][SharedNext]_vars

(***************************************************************************)
(* isMatchingID applied to a response identifier and a request identifier. *)
(***************************************************************************)
\* The response identifiers tried: Go integers, float64 values in halves,
\* strings, nil and a value of another type.
MatchIDs ==
    {Int64ID(v) : v \in 0..(MaxReq + 1)}
        \cup {IntID(v) : v \in 0..(MaxReq + 1)}
        \cup {FloatID(h) : h \in 0..(2 * MaxReq + 2)}
        \cup {StrID(str) : str \in {<<"1">>, <<"2">>, <<"3">>, <<"0", "1">>, <<"+", "1">>,
                                    <<"-", "1">>, <<"1", "0">>, <<"1", ".", "0">>,
                                    <<"1", ".", "5">>, <<"a">>, <<" ", "1">>, <<>>}}
        \cup {NullID, OtherID}

MatchInit ==
    /\ ClientInit
    /\ ProbeInit
    /\ DuplexInit
    /\ input \in {<<r, n>> : r \in MatchIDs, n \in 1..MaxReq}
    /\ output = <<>>

\* c.isMatchingID(response.ID, requestID)
Match ==
    /\ output = <<>>
    /\ output' = <<isMatchingID(input[1], input[2])>>
    /\ UNCHANGED <<clientVars, transportVars, callerVars, historyVars, input>>
    /\ UNCHANGED <<probeVars, duplexVars>>

MatchNext == Match

MatchSpec == MatchInit /\ [][MatchNext]_vars

(***************************************************************************)
(* Server discovery (pkg/discovery).  A string is a sequence of            *)
(* one-character strings where the code looks inside it.                   *)
(***************************************************************************)
\* strings.Contains(str, sub)
Contains(str, sub) ==
    \E i \in 1..(Len(str) + 1) :
        i + Len(sub) - 1 <= Len(str) /\ SubSeq(str, i, i + Len(sub) - 1) = sub

\* strings.ToLower(str), on the letters that the inputs use.
ToLower(str) ==
    [i \in 1..Len(str) |->
        CASE str[i] = "M" -> "m"
          [] str[i] = "C" -> "c"
          [] str[i] = "P" -> "p"
          [] OTHER        -> str[i]]

mcpKeywords ==
    <<<<"m", "c", "p">>,
      <<"m", "o", "d", "e", "l", "-", "c", "o", "n", "t", "e", "x", "t", "-",
        "p", "r", "o", "t", "o", "c", "o", "l">>,
      <<"c", "o", "n", "t", "e", "x", "t">>>>

isMCPContainer(container) ==
    \/ \E k \in 1..Len(mcpKeywords) :
          \/ Contains(ToLower(container.Name), mcpKeywords[k])
          \/ Contains(ToLower(container.Image), mcpKeywords[k])
    \/ \E j \in 1..Len(container.Ports) :
          \/ Contains(container.Ports[j], <<"8", "8", "1", "1">>)
          \/ Contains(container.Ports[j], <<"3", "0", "0", "0">>)

commonPorts == <<8811, 8080, 3000, 4000, 5000, 8000, 8888, 9000>>

\* The descriptor of a server found by probing a port.
TCPServer(host, port) ==
    [Name |-> <<"TCP Server", host, port>>, Type |-> "tcp", Address |-> host, Port |-> port]

\* The descriptor of a server found in a container.
DockerServer(container) ==
    [Name |-> <<"Docker Container", container.Name>>, Type |-> "docker",
     Address |-> container.ID, Port |-> 0]

\* The static bridge descriptor.
dockerMCP ==
    [Name |-> <<"Docker MCP (Direct TCP)">>, Type |-> "docker", Address |-> "localhost",
     Port |-> 8811]

\* DiscoverTCPServers: one descriptor for each port of ports that is open, in
\* the order of ports.
RECURSIVE DiscoverTCPServers(_, _, _)
DiscoverTCPServers(host, ports, open) ==
    IF ports = <<>> THEN <<>>
    ELSE (IF Head(ports) \in open THEN <<TCPServer(host, Head(ports))>> ELSE <<>>)
             \o DiscoverTCPServers(host, Tail(ports), open)

DiscoverCommonPorts(host, open) == DiscoverTCPServers(host, commonPorts, open)

RECURSIVE MCPServersOf(_)
MCPServersOf(containers) ==
    IF containers = <<>> THEN <<>>
    ELSE (IF isMCPContainer(Head(containers)) THEN <<DockerServer(Head(containers))>>
          ELSE <<>>)
             \o MCPServersOf(Tail(containers))

\* DiscoverDockerServers: nothing when the runtime is not available.
DiscoverDockerServers(docker, containers) ==
    IF ~docker THEN <<>> ELSE MCPServersOf(containers)

\* As DiscoverAll, but the static descriptor is left out when probing found
\* port 8811.
DiscoverAll_Deduplicates(host, open, docker, containers) ==
    DiscoverCommonPorts(host, open)
        \o DiscoverDockerServers(docker, containers)
        \o (IF dockerMCP.Port \in open THEN <<>> ELSE <<dockerMCP>>)

DiscoverAll(host, open, docker, containers) ==
    DiscoverCommonPorts(host, open)
        \o DiscoverDockerServers(docker, containers)
        \o <<dockerMCP>>

\* The containers that the runtime may list.
SampleContainers ==
    {[ID |-> "a1", Name |-> <<"M", "C", "P">>, Image |-> <<"x">>, Ports |-> <<>>],
     [ID |-> "b2", Name |-> <<"d", "b">>, Image |-> <<"c", "o", "n", "t", "e", "x", "t">>,
      Ports |-> <<<<"8", "0">>>>],
     [ID |-> "c3", Name |-> <<"d", "b">>, Image |-> <<"p", "g">>,
      Ports |-> <<<<"8", "0">>, <<"3", "0", "0", "0", "0">>>>],
     [ID |-> "d4", Name |-> <<"d", "b">>, Image |-> <<"p", "g">>, Ports |-> <<<<"8", "0">>>>]}

ContainerLists ==
    UNION {[1..n -> SampleContainers] : n \in 0..MaxContainers}

DiscoverInit ==
    /\ ClientInit
    /\ ProbeInit
    /\ DuplexInit
    /\ tkind = "tcp"
    /\ input \in {<<open, docker, containers>> :
                    open \in SUBSET {commonPorts[i] : i \in 1..Len(commonPorts)},
                    docker \in BOOLEAN,
                    containers \in ContainerLists}
    /\ output = <<>>

\* d.DiscoverAll(ctx, "localhost")
Discover ==
    /\ output = <<>>
    /\ output' = <<DiscoverAll("localhost", input[1], input[2], input[3])>>
    /\ UNCHANGED <<clientVars, transportVars, callerVars, historyVars, input>>
    /\ UNCHANGED <<probeVars, duplexVars>>

DiscoverNext == Discover

DiscoverSpec == DiscoverInit /\ [][DiscoverNext]_vars

(***************************************************************************)
(* DiscoverTCPServers step by step: the loop over the ports, isPortOpen     *)
(* with the connection it makes, and the transport each descriptor gets.   *)
(* input is <<host, ports>>.                                               *)
(***************************************************************************)
\* transport.NewTCPTransport(host, port): a new instance, not connected.
NewTCPTransport(host, port) == [host |-> host, port |-> port, connected |-> FALSE]

\* The port that the loop is at.
ProbedPort == input[2][Len(dials)]

\* isPortOpen is between its DialTimeout and its conn.Close().
Probing == conns # <<>> /\ conns[Len(conns)] = "open"

\* DiscoverTCPServers has returned.
ProbeReturned == Len(dials) = Len(input[2]) /\ ~Probing

\* The next port of the loop: net.DialTimeout succeeds or fails; on failure
\* isPortOpen returns false and the loop goes on.
ProbeDial ==
    /\ ~Probing
    /\ Len(dials) < Len(input[2])
    /\ \E ok \in BOOLEAN :
          /\ dials' = Append(dials, ok)
          /\ conns' = IF ok THEN Append(conns, "open") ELSE conns
    /\ UNCHANGED <<clientVars, transportVars, callerVars, historyVars>>
    /\ UNCHANGED <<input, output, servers, heap, duplexVars>>

\* As ProbeFound, but every descriptor gets the transport of the first one.
ProbeFound_SharesTransport ==
    /\ Probing
    /\ conns' = [conns EXCEPT ![Len(conns)] = "closed"]
    /\ heap' = IF heap = <<>> THEN <<NewTCPTransport(input[1], ProbedPort)>> ELSE heap
    /\ servers' = Append(servers, TCPServer(input[1], ProbedPort) @@ ("Transport" :> 1))
    /\ UNCHANGED <<clientVars, transportVars, callerVars, historyVars>>
    /\ UNCHANGED <<input, output, dials, duplexVars>>

\* conn.Close(), isPortOpen returns true, and the loop appends the descriptor
\* with a transport from NewTCPTransport.
ProbeFound ==
    /\ Probing
    /\ conns' = [conns EXCEPT ![Len(conns)] = "closed"]
    /\ heap' = Append(heap, NewTCPTransport(input[1], ProbedPort))
    /\ servers' = Append(servers,
                         TCPServer(input[1], ProbedPort) @@ ("Transport" :> (Len(heap) + 1)))
    /\ UNCHANGED <<clientVars, transportVars, callerVars, historyVars>>
    /\ UNCHANGED <<input, output, dials, duplexVars>>

\* The port lists tried: any order, a port more than once.
PortLists ==
    UNION {[1..n -> {8811, 8080, 3000}] : n \in 0..MaxPorts}

ProbeSpecInit ==
    /\ ClientInit
    /\ tkind = "tcp"
    /\ ProbeInit
    /\ DuplexInit
    /\ input \in {<<"localhost", ports>> : ports \in PortLists}
    /\ output = <<>>

ProbeNext == ProbeDial \/ ProbeFound

ProbeSpec == ProbeSpecInit /\ [][ProbeNext]_vars

(***************************************************************************)
(* The duplexed transport frame by frame: Connect, Close, Send, Receive    *)
(* and the steps of readLoop and writeLoop.  A frame is [n, gen]: its      *)
(* number in the order of acceptance (or of reading) and the connection    *)
(* during which it was accepted (or read).  A worker is [kind, at, frame,  *)
(* gen]: where the goroutine is, the frame it holds, the connection it     *)
(* reads.  The workers read w.conn without holding w.mu, so each reads it  *)
(* when it calls ReadMessage or WriteMessage.                              *)
(***************************************************************************)
NoFrame == [n |-> 0, gen |-> 0]

\* errorChan: make(chan error, 10).  A worker sends at most one error, so the
\* channel of one instance holds as many errors as it has had workers.
ErrorChanCap == 10

Worker(kind) == [kind |-> kind, at |-> "select", frame |-> NoFrame, gen |-> 0]

\* The direct user of the transport; a panic of Close ends the process.
WSAlive == pc["c1"] # "panic"

\* The connection whose Connect started worker i.
StartedBy(i) == (i + 1) \div 2

\* The error that worker i sends to errorChan: from its read or its write, on
\* connection gen (0 when w.conn was nil), by a worker of connection of.
ErrorOf(i) == [from |-> workers[i].kind, gen |-> workers[i].gen, of |-> StartedBy(i)]

\* Worker i moves to at, holding frame, reading connection gen.
WorkerGoes(i, at, frame, gen) ==
    workers' = [workers EXCEPT ![i] = [kind |-> @.kind, at |-> at, frame |-> frame,
                                        gen |-> gen]]

\* Connect of a transport that is not connected, the dial succeeding.
WSConnect ==
    /\ WSAlive
    /\ ~wsConnected
    /\ Len(workers) < 2 * MaxConns
    /\ conn' = (Len(workers) \div 2) + 1
    /\ live' = live \cup {conn'}
    /\ wsConnected' = TRUE
    /\ workers' = workers \o <<Worker("read"), Worker("write")>>
    /\ UNCHANGED <<stopChan, writeChan, readChan, errorChan, accepted, wire, nread, received>>
    /\ UNCHANGED <<clientVars, transportVars, callerVars, historyVars>>
    /\ UNCHANGED <<input, output, probeVars>>

\* Close of a connected transport.
WSClose ==
    /\ WSAlive
    /\ wsConnected /\ conn # 0
    /\ IF stopChan = "closed"
       THEN /\ pc' = [pc EXCEPT !["c1"] = "panic"]
            /\ UNCHANGED <<wsConnected, conn, live, stopChan>>
       ELSE /\ stopChan' = "closed"
            /\ live' = live \ {conn}
            /\ wsConnected' = FALSE
            /\ conn' = 0
            /\ UNCHANGED pc
    /\ UNCHANGED <<writeChan, readChan, errorChan, workers, accepted, wire, nread, received>>
    /\ UNCHANGED <<clientVars, transportVars, op, rid, resp, ret, ctxDone, historyVars>>
    /\ UNCHANGED <<input, output, probeVars>>

\* Send on a connected transport with room in writeChan: case w.writeChan <- data.
WSSend ==
    /\ WSAlive
    /\ wsConnected
    /\ Len(accepted) < MaxFrames
    /\ Len(writeChan) < MaxOutbox
    /\ LET f == [n |-> Len(accepted) + 1, gen |-> conn]
       IN  /\ writeChan' = Append(writeChan, f)
           /\ accepted' = Append(accepted, f)
    /\ UNCHANGED <<wsConnected, conn, live, stopChan, readChan, errorChan, workers>>
    /\ UNCHANGED <<wire, nread, received>>
    /\ UNCHANGED <<clientVars, transportVars, callerVars, historyVars>>
    /\ UNCHANGED <<input, output, probeVars>>

\* Receive on a connected transport: case data := <-w.readChan, or
\* case err := <-w.errorChan.
WSReceive ==
    /\ WSAlive
    /\ wsConnected
    /\ \/ /\ readChan # <<>>
          /\ received' = Append(received, Head(readChan))
          /\ readChan' = Tail(readChan)
          /\ UNCHANGED errorChan
       \/ /\ errorChan # <<>>
          /\ errorChan' = Tail(errorChan)
          /\ UNCHANGED <<received, readChan>>
    /\ UNCHANGED <<wsConnected, conn, live, stopChan, writeChan, workers>>
    /\ UNCHANGED <<accepted, wire, nread>>
    /\ UNCHANGED <<clientVars, transportVars, callerVars, historyVars>>
    /\ UNCHANGED <<input, output, probeVars>>

\* One step of readLoop, goroutine i.
ReadLoop(i) ==
    /\ WSAlive
    /\ workers[i].kind = "read"
    /\ \/ \* select: case <-w.stopChan: return; default: go on to ReadMessage
          /\ workers[i].at = "select"
          /\ IF stopChan = "closed"
             THEN WorkerGoes(i, "exit", NoFrame, 0)
             ELSE WorkerGoes(i, "call", NoFrame, 0)
          /\ UNCHANGED <<readChan, errorChan, nread>>
       \/ \* w.conn.ReadMessage() begins: w.conn is read; nil panics, and the
          \* deferred recover sends the error
          /\ workers[i].at = "call"
          /\ IF conn = 0
             THEN WorkerGoes(i, "error", NoFrame, 0)
             ELSE WorkerGoes(i, "read", NoFrame, conn)
          /\ UNCHANGED <<readChan, errorChan, nread>>
       \/ \* ReadMessage returns a frame of the peer, which sends one frame
          \* more than readChan holds
          /\ workers[i].at = "read"
          /\ workers[i].gen \in live
          /\ nread <= MaxInbox
          /\ nread' = nread + 1
          /\ WorkerGoes(i, "put", [n |-> nread + 1, gen |-> workers[i].gen], workers[i].gen)
          /\ UNCHANGED <<readChan, errorChan>>
       \/ \* ReadMessage returns an error: the connection is closed
          /\ workers[i].at = "read"
          /\ workers[i].gen \notin live
          /\ WorkerGoes(i, "error", NoFrame, workers[i].gen)
          /\ UNCHANGED <<readChan, errorChan, nread>>
       \/ \* w.readChan <- message
          /\ workers[i].at = "put"
          /\ Len(readChan) < MaxInbox
          /\ readChan' = Append(readChan, workers[i].frame)
          /\ WorkerGoes(i, "select", NoFrame, 0)
          /\ UNCHANGED <<errorChan, nread>>
       \/ \* w.errorChan <- err; return
          /\ workers[i].at = "error"
          /\ Len(errorChan) < ErrorChanCap
          /\ errorChan' = Append(errorChan, ErrorOf(i))
          /\ WorkerGoes(i, "exit", NoFrame, 0)
          /\ UNCHANGED <<readChan, nread>>
    /\ UNCHANGED <<wsConnected, conn, live, stopChan, writeChan, accepted, wire, received>>
    /\ UNCHANGED <<clientVars, transportVars, callerVars, historyVars>>
    /\ UNCHANGED <<input, output, probeVars>>

\* One step of writeLoop, goroutine i.  The select takes any case that is
\* ready: with stopChan closed and a frame in writeChan, either.
WriteLoopStep(i) ==
    /\ WSAlive
    /\ workers[i].kind = "write"
    /\ \/ \* case <-w.stopChan: return
          /\ workers[i].at = "select"
          /\ stopChan = "closed"
          /\ WorkerGoes(i, "exit", NoFrame, 0)
          /\ UNCHANGED <<writeChan, errorChan, wire>>
       \/ \* case data := <-w.writeChan
          /\ workers[i].at = "select"
          /\ writeChan # <<>>
          /\ writeChan' = Tail(writeChan)
          /\ WorkerGoes(i, "write", Head(writeChan), 0)
          /\ UNCHANGED <<errorChan, wire>>
       \/ \* w.conn.WriteMessage(websocket.TextMessage, data): w.conn is read;
          \* nil panics, a closed connection returns an error
          /\ workers[i].at = "write"
          /\ IF conn \in live
             THEN /\ wire' = Append(wire, [frame |-> workers[i].frame, gen |-> conn])
                  /\ WorkerGoes(i, "select", NoFrame, 0)
             ELSE /\ WorkerGoes(i, "error", NoFrame, conn)
                  /\ UNCHANGED wire
          /\ UNCHANGED <<writeChan, errorChan>>
       \/ \* w.errorChan <- err; return
          /\ workers[i].at = "error"
          /\ Len(errorChan) < ErrorChanCap
          /\ errorChan' = Append(errorChan, ErrorOf(i))
          /\ WorkerGoes(i, "exit", NoFrame, 0)
          /\ UNCHANGED <<writeChan, wire>>
    /\ UNCHANGED <<wsConnected, conn, live, stopChan, readChan, accepted, nread, received>>
    /\ UNCHANGED <<clientVars, transportVars, callerVars, historyVars>>
    /\ UNCHANGED <<input, output, probeVars>>

\* The connection fails: the peer closes it, or the network drops.
ConnFails ==
    /\ WSAlive
    /\ conn \in live
    /\ live' = live \ {conn}
    /\ UNCHANGED <<wsConnected, conn, stopChan, writeChan, readChan, errorChan, workers>>
    /\ UNCHANGED <<accepted, wire, nread, received>>
    /\ UNCHANGED <<clientVars, transportVars, callerVars, historyVars>>
    /\ UNCHANGED <<input, output, probeVars>>

DuplexNext ==
    \/ WSConnect
    \/ WSClose
    \/ WSSend
    \/ WSReceive
    \/ \E i \in 1..Len(workers) : ReadLoop(i)
    \/ \E i \in 1..Len(workers) : WriteLoopStep(i)
    \/ ConnFails

DuplexSpecInit == Init /\ tkind = "ws"

DuplexSpec == DuplexSpecInit /\ [][DuplexNext]_vars

\* A step of goroutine i, once Connect has started it.
WorkerStep(i) == i \in DOMAIN workers /\ (ReadLoop(i) \/ WriteLoopStep(i))

\* The scheduler runs every worker that can take a step.  Nothing makes the
\* user of the transport call it again, the peer send, or the connection fail.
DuplexFairSpec ==
    /\ DuplexSpec
    /\ \A i \in 1..(2 * MaxConns) : WF_vars(WorkerStep(i))

(***************************************************************************)
(* Properties.                                                             *)
(***************************************************************************)
\* The client state that an operation may change.
SameAsBefore(c) ==
    /\ connected = pre[c].connected
    /\ initialized = pre[c].initialized
    /\ serverInfo = pre[c].serverInfo
    /\ serverCapabilities = pre[c].serverCapabilities

Returned(c, o) == pc[c] = "done" /\ op[c] = o

\* C1: whenever sendRequest hands a response to the operation that called it,
\* the identifier of the response is numerically equal to the identifier
\* assigned to the request of that call (every other inbound message has been
\* dropped).
C1_CorrelationSafety ==
    \A c \in Callers : pc[c] = "got" => IDHalves(resp[c].id) = 2 * rid[c]

\* C2: the identifiers assigned to requests start at 1 and are strictly
\* increasing in order of assignment, hence never assigned twice, also when
\* two callers issue requests concurrently.
C2_IdentifiersIncrease ==
    /\ assigned # <<>> => assigned[1] = 1
    /\ \A i, j \in 1..Len(assigned) : i < j => assigned[i] < assigned[j]
    /\ \A c \in Callers : rid[c] # 0 => \E i \in 1..Len(assigned) : assigned[i] = rid[c]
    /\ \A c, d \in Callers :
          c # d /\ pc[c] \notin {"idle", "done"} /\ pc[d] \notin {"idle", "done"}
              /\ rid[c] # 0 => rid[c] # rid[d]

\* Both callers hold an identifier at the same time, after a reconnection.
C2_Witness ==
    /\ rid["c1"] # 0 /\ rid["c2"] # 0
    /\ pc["c1"] \in {"send", "loop", "recv"} /\ pc["c2"] \in {"send", "loop", "recv"}
    /\ Len(assigned) = 3

\* C3: an operation that returns because Send or Receive of the transport
\* failed leaves the client Disconnected.
C3_TransportFailureDisconnects ==
    \A c \in Callers :
        pc[c] = "done" /\ ret[c] \in {"errSend", "errReceive", "errNotification"}
            => ~IsConnected /\ ~IsInitialized

\* C4: an operation that returns the request timeout leaves the connected
\* flag, the initialized flag, the server identity and the capabilities as
\* they were, and has not closed the transport.
C4_TimeoutChangesNothing ==
    \A c \in Callers :
        pc[c] = "done" /\ ret[c] = "errTimeout"
            => /\ SameAsBefore(c)
               /\ tconnected = pre[c].tconnected
               /\ "close" \notin io[c]

\* A request of an Initialized client timed out after a message was dropped.
C4_Witness ==
    \E c \in Callers :
        /\ pc[c] = "done" /\ ret[c] = "errTimeout"
        /\ op[c] \in HighLevelOps
        /\ initialized /\ connected /\ tconnected
        /\ "recv" \in io[c]

\* The caller waits for the response on a connected peer that has sent nothing.
WaitingOnSilentPeer(c) ==
    /\ pc[c] \in {"loop", "recv"}
    /\ tconnected /\ link = "up"
    /\ inbox = <<>> /\ errq = 0

\* C5: on every transport variant a request that waits on a connected peer
\* that never sends anything eventually returns the request timeout, with the
\* client still connected (or else the peer has sent something, or the
\* connection has failed).
C5_SilentPeerTimesOut ==
    \A c \in SeqCallers :
        WaitingOnSilentPeer(c)
            ~> \/ pc[c] = "done" /\ ret[c] = "errTimeout" /\ IsConnected
               \/ inbox # <<>>
               \/ link # "up"

\* C6: Initialize called on a Disconnected client returns ErrNotConnected at
\* once: no transport call, no identifier consumed, nothing changed.
C6_InitializeNotConnected ==
    \A c \in Callers :
        op[c] = "Initialize" /\ ~pre[c].connected
            => /\ pc[c] = "done"
               /\ ret[c] = "ErrNotConnected"
               /\ io[c] = {}
               /\ requestID = pre[c].requestID
               /\ SameAsBefore(c)
               /\ tconnected = pre[c].tconnected

\* Initialize was refused on a client that had been connected and used before.
C6_Witness ==
    \E c \in Callers :
        /\ Returned(c, "Initialize") /\ ret[c] = "ErrNotConnected"
        /\ ~connected
        /\ requestID > 0

\* C7: a high-level operation called on a client that is not Initialized
\* returns the local not-initialized error at once: no transport call, no
\* identifier consumed, nothing changed.
C7_OperationNotInitialized ==
    \A c \in Callers :
        op[c] \in HighLevelOps /\ ~pre[c].initialized
            => /\ pc[c] = "done"
               /\ ret[c] = "errNotInitialized"
               /\ io[c] = {}
               /\ requestID = pre[c].requestID
               /\ SameAsBefore(c)
               /\ tconnected = pre[c].tconnected

\* CallTool was refused on a client that is Connected and not Initialized.
C7_Witness ==
    \E c \in Callers :
        /\ Returned(c, "CallTool") /\ ret[c] = "errNotInitialized"
        /\ connected /\ tconnected /\ ~initialized

\* C8: a call of Disconnect, in whatever state, returns with the client
\* Disconnected and nothing stored; on a client that was Disconnected already
\* it returns no error, does not call Close and changes nothing.
C8_DisconnectFromAnyState ==
    \A c \in Callers :
        op[c] = "Disconnect"
            => /\ pc[c] = "done"
               /\ ~IsConnected /\ ~IsInitialized
               /\ GetServerInfo = Nil /\ GetServerCapabilities = Nil
               /\ ~pre[c].connected
                    => /\ ret[c] = "ok"
                       /\ "close" \notin io[c]
                       /\ SameAsBefore(c)
                       /\ tconnected = pre[c].tconnected

\* C9: after Initialize returned success the client is Initialized and holds
\* the server identity and the capabilities of the result of the response that
\* matched the initialize request.
C9_InitializeStoresServer ==
    \A c \in Callers :
        Returned(c, "Initialize") /\ ret[c] = "ok"
            => /\ IsInitialized
               /\ isMatchingID(resp[c].id, rid[c])
               /\ resp[c].result.k = "obj"
               /\ GetServerInfo = resp[c].result.info
               /\ GetServerCapabilities = resp[c].result.caps

\* Initialize succeeded on a Connected client and stored the server "demo".
C9_Witness ==
    \E c \in Callers :
        /\ Returned(c, "Initialize") /\ ret[c] = "ok"
        /\ pre[c].connected /\ ~pre[c].initialized
        /\ serverInfo = "demo" /\ serverCapabilities = "tools"

\* C10: between two operations the client reports Initialized only if the
\* notification notifications/initialized was sent on the current connection.
C10_InitializedAfterNotification ==
    (\A c \in Callers : Idle(c)) /\ IsInitialized => notified
\* The error value the last operation of caller c returned.
ReturnedError(c) == ErrorValue(op[c], ret[c], resp[c])

\* C11: an operation whose correlated response carries an error object fails
\* and leaves the connected flag, the initialized flag, the server identity
\* and the capabilities as they were; it has not closed the transport and has
\* issued its request once.
C11_ServerErrorChangesNothing ==
    \A c \in Callers :
        pc[c] = "done" /\ ret[c] = "errServer"
            => /\ ReturnedError(c) # NilError
               /\ SameAsBefore(c)
               /\ tconnected = pre[c].tconnected
               /\ "close" \notin io[c]
               /\ requestID = pre[c].requestID + 1

\* A request of an Initialized client was answered with an error object.
C11_Witness ==
    \E c \in Callers :
        /\ pc[c] = "done" /\ ret[c] = "errServer"
        /\ op[c] \in HighLevelOps
        /\ resp[c].error.code = ErrorCodeInvalidParams
        /\ initialized /\ connected

\* C12: the failure an operation returns for a server error is a typed error
\* from which the caller gets back the code, the message and the data of the
\* error object of the response.
C12_ServerErrorIsTyped ==
    \A c \in Callers :
        pc[c] = "done" /\ ret[c] = "errServer"
            => /\ IsErrorCode(ReturnedError(c), resp[c].error.code)
               /\ ReturnedError(c).message = resp[c].error.message
               /\ ReturnedError(c).data = resp[c].error.data

\* C13: isMatchingID(r, n) is true exactly when the response identifier r
\* stands for a number equal to n (an integer n, the float n.0, a decimal
\* string of n); a float that is not whole, another number, a string that is
\* no integer and nil do not match.
C13_MatchingIsNumericEquality ==
    output # <<>> => (output[1] <=> IDHalves(input[1]) = 2 * input[2])


\* c's receive loop takes the next message and drops it.
DropsHead(c) == pc[c] = "recv" /\ pc'[c] = "loop" /\ inbox # <<>> /\ inbox' = Tail(inbox)

\* d waits for the response that is next in the inbound buffer.
AwaitsHead(d) ==
    /\ pc[d] \in {"loop", "recv"}
    /\ inbox # <<>>
    /\ isMatchingID(Unmarshal(Head(inbox)).id, rid[d])

\* C14: with two callers in request operations on one client, the receive loop
\* of one caller never consumes and drops the response that the other caller
\* is waiting for.
C14_NoResponseStolen ==
    [][\A c, d \in Callers : c # d /\ DropsHead(c) => ~AwaitsHead(d)]_vars


\* C15: a Connect made while connected returns success and changes nothing.
\* On a connected client it does not call the transport; on a connected
\* transport (of a client that a failure has marked disconnected) the
\* transport's Connect opens no connection, starts no process and no worker.
C15_ConnectIdempotent ==
    [][\A c \in Callers :
          Connect(c) /\ (connected \/ tconnected)
              => /\ ret'[c] = "ok"
                 /\ UNCHANGED transportVars
                 /\ connected => UNCHANGED clientVars /\ io'[c] = {}]_vars

\* Connect returned on a client marked disconnected whose transport was still
\* connected: the transport's Connect was called while connected.
C15_Witness ==
    \E c \in Callers :
        /\ Returned(c, "Connect") /\ ret[c] = "ok"
        /\ pre[c].tconnected /\ ~pre[c].connected
        /\ "connect" \in io[c]


\* C16: Close of a transport never panics, whatever Connect and Close calls
\* came before it, and Close of a transport that is not connected returns no
\* error.
C16_CloseIsSafe ==
    \A c \in Callers :
        /\ pc[c] # "panic"
        /\ Returned(c, "Transport.Close") /\ ~pre[c].tconnected => ret[c] = "ok"


\* C17: every frame that Send accepted has been written to the connection
\* when Send returns, so that none is still unwritten when a Close follows;
\* and Send on a transport that is not connected fails and leaves the
\* transport as it was.
C17_SendWritesFully ==
    [][\A c \in Callers :
          /\ TransportSendCall(c) /\ ~tconnected
                => ret'[c] = "errSend" /\ UNCHANGED transportVars
          /\ TransportCloseCall(c) /\ tconnected => writeq = 0]_vars


\* C18: after Close returned, also after a Connect that failed part-way, the
\* transport holds no open connection, no open pipe and no process.
C18_CloseReleasesEverything ==
    \A c \in Callers :
        Returned(c, "Transport.Close")
            => ~tconnected /\ link = "none" /\ pipes = {} /\ ~proc


\* C19: Close of a connected process-pipe transport closes the input pipe, the
\* output pipe and the error pipe, terminates the process and waits for it,
\* in this order and all of them whichever fail; the transport is not
\* connected afterwards; the error returned is non-nil exactly when a step
\* failed.
C19_CloseStepsInOrder ==
    \A c \in Callers :
        Returned(c, "Transport.Close") /\ pre[c].tconnected /\ tkind = "stdio"
            => /\ [i \in 1..Len(closeLog) |-> closeLog[i].step]
                    = <<"stdin", "stdout", "stderr", "kill", "wait">>
               /\ ~tconnected
               /\ ret[c] = "errClose" <=> \E i \in 1..Len(closeLog) : closeLog[i].failed


\* The position of port in the well-known port list.
PortRank(port) == CHOOSE i \in 1..Len(commonPorts) : commonPorts[i] = port

\* The containers of the input that count as servers, with the runtime there.
FoundContainers ==
    IF input[2] THEN {i \in 1..Len(input[3]) : isMCPContainer(input[3][i])} ELSE {}

\* C20: DiscoverAll returns one port-probe descriptor for each open well-known
\* port, in the order of the well-known list, then the container descriptors,
\* then the static bridge descriptor as the last element, also when port 8811
\* was found by probing; with nothing found the result is that one element.
C20_DiscoverAllOrder ==
    output # <<>> =>
        LET allServers == output[1]
            np == Cardinality(input[1])
            nc == Cardinality(FoundContainers)
        IN  /\ Len(allServers) = np + nc + 1
            /\ allServers[Len(allServers)] = dockerMCP
            /\ \A i \in 1..np : allServers[i].Type = "tcp" /\ allServers[i].Port \in input[1]
            /\ \A i, j \in 1..np :
                  i < j => PortRank(allServers[i].Port) < PortRank(allServers[j].Port)
            /\ \A i \in (np + 1)..(np + nc) :
                  /\ allServers[i].Type = "docker"
                  /\ \E k \in FoundContainers : allServers[i].Address = input[3][k].ID
            /\ \A i, j \in (np + 1)..(np + nc) :
                  i < j => \E k, l \in FoundContainers :
                              /\ k < l
                              /\ allServers[i].Address = input[3][k].ID
                              /\ allServers[j].Address = input[3][l].ID

\* Port 8811 was found by probing, a container was found, and the static
\* descriptor is in the result as well.
C20_Witness ==
    /\ output # <<>>
    /\ 8811 \in input[1]
    /\ FoundContainers # {}
    /\ Len(output[1]) = Cardinality(input[1]) + Cardinality(FoundContainers) + 1


\* The positions of the port list whose connect attempt succeeded.
RECURSIVE Succeeded(_)
Succeeded(n) ==
    IF n = 0 THEN <<>>
    ELSE Succeeded(n - 1) \o (IF dials[n] THEN <<n>> ELSE <<>>)

\* C21: when probing a list of ports has returned, the result has one
\* descriptor for each port whose connect attempt succeeded, in the order of
\* the list, and none for another port; the transport of each descriptor is an
\* instance of its own for that host and port, not connected; no probe
\* connection is open.
C21_ProbeResult ==
    ProbeReturned =>
        LET found == Succeeded(Len(dials))
        IN  /\ Len(servers) = Len(found)
            /\ \A i \in 1..Len(servers) :
                  /\ servers[i].Type = "tcp"
                  /\ servers[i].Address = input[1]
                  /\ servers[i].Port = input[2][found[i]]
                  /\ servers[i].Transport \in 1..Len(heap)
                  /\ heap[servers[i].Transport]
                        = [host |-> input[1], port |-> servers[i].Port, connected |-> FALSE]
            /\ \A i, j \in 1..Len(servers) :
                  i # j => servers[i].Transport # servers[j].Transport
            /\ \A k \in 1..Len(conns) : conns[k] = "closed"

\* Probing returned after the same port was found open twice and another
\* attempt failed.
C21_Witness ==
    /\ ProbeReturned
    /\ Len(servers) = 2
    /\ servers[1].Port = servers[2].Port
    /\ \E n \in 1..Len(dials) : ~dials[n]


C23_CallToolChecksConnection ==
    \A c \in Callers :
        op[c] = "CallTool" /\ pre[c].initialized /\ ~pre[c].tconnected
            => /\ pc[c] \in {"chk", "done"}
               /\ io[c] = {}
               /\ requestID = pre[c].requestID
               /\ pc[c] = "done"
                    => /\ ret[c] = "errConnectionCheck"
                       /\ ~IsConnected
                       /\ ~IsInitialized

\* CallTool returned the connection-check error on a client that was
\* Initialized when it was called.
C23_Witness ==
    \E c \in Callers :
        /\ Returned(c, "CallTool") /\ ret[c] = "errConnectionCheck"
        /\ pre[c].initialized /\ pre[c].connected /\ ~pre[c].tconnected
        /\ ~connected /\ ~initialized


\* C24: in every state that one caller at a time can reach, IsInitialized()
\* implies IsConnected(): the client is Disconnected, Connected and not
\* Initialized, or Initialized.
C24_InitializedImpliesConnected == IsInitialized => IsConnected

\* A failed Send or Receive has ended a session that was Initialized.
C24_Witness ==
    \E c \in Callers :
        /\ pc[c] = "done" /\ ret[c] \in {"errSend", "errReceive"}
        /\ pre[c].initialized /\ pre[c].connected
        /\ ~connected /\ ~initialized

\* C25: whenever the client is not Initialized, GetServerInfo() and
\* GetServerCapabilities() return nil.
C25_NothingStoredUnlessInitialized ==
    ~IsInitialized => GetServerInfo = Nil /\ GetServerCapabilities = Nil


\* C26: within one Initialize call the first message passed to Send is the
\* initialize request; a second message is passed only after a response that
\* matches the request, carries no error and decodes has been received, and it
\* is the notification notifications/initialized without an identifier; no
\* third message is passed.  Hence no notification after an error response, a
\* result that does not decode, or no response.
C26_HandshakeOrder ==
    \A c \in Callers :
        op[c] = "Initialize"
            => /\ Len(outlog[c]) <= 2
               /\ Len(outlog[c]) >= 1
                    => outlog[c][1] = NewRequest(rid[c], "initialize") /\ rid[c] > 0
               /\ Len(outlog[c]) = 2
                    => /\ outlog[c][2].method = "notifications/initialized"
                       /\ outlog[c][2].id = NullID
                       /\ isMatchingID(resp[c].id, rid[c])
                       /\ ~resp[c].error.set
                       /\ ParseOK(resp[c].result)
               /\ pc[c] = "done" /\ ret[c] \notin {"ok", "errNotification"}
                    => Len(outlog[c]) <= 1

\* Initialize returned success after its request and its notification.
C26_Witness ==
    \E c \in Callers :
        /\ Returned(c, "Initialize") /\ ret[c] = "ok"
        /\ Len(outlog[c]) = 2
        /\ outlog[c][1].method = "initialize"


\* C27: Initialize called on a Connected client that is not Initialized, whose
\* matching response carries an error or a result that does not decode
\* (a missing one included), returns an error and leaves the client Connected
\* and not Initialized, with no server identity and no capabilities stored.
C27_FailedHandshakeStoresNothing ==
    \A c \in Callers :
        (/\ Returned(c, "Initialize")
         /\ pre[c].connected /\ ~pre[c].initialized
         /\ isMatchingID(resp[c].id, rid[c])
         /\ resp[c].error.set \/ ~ParseOK(resp[c].result))
            => /\ ret[c] \in {"errServer", "errParse"}
               /\ IsConnected
               /\ ~IsInitialized
               /\ GetServerInfo = Nil
               /\ GetServerCapabilities = Nil


\* C28: Initialize called on a client that is Initialized passes no message
\* to Send, and the stored server identity and capabilities stay what they
\* were.
C28_InitializeOnce ==
    \A c \in Callers :
        op[c] = "Initialize" /\ pre[c].initialized
            => /\ outlog[c] = <<>>
               /\ GetServerInfo = pre[c].serverInfo
               /\ GetServerCapabilities = pre[c].serverCapabilities


\* C29: of two frames that Send accepted during one connection and that were
\* written to that connection, the one accepted first was written first, and
\* no frame was written twice; Receive returns the frames in the order in
\* which the read workers read them.
C29_FramesInOrder ==
    /\ \A i, j \in 1..Len(wire) :
          i < j /\ wire[i].gen = wire[j].gen
                /\ wire[i].frame.gen = wire[i].gen /\ wire[j].frame.gen = wire[j].gen
              => wire[i].frame.n < wire[j].frame.n
    /\ \A i, j \in 1..Len(received) : i < j => received[i].n < received[j].n


\* Worker i has not returned and is not about to.
Running(i) == workers[i].at \notin {"exit", "error"}

\* C30: whenever the duplexed transport is connected and its connection has
\* not failed, the read worker and the write worker that its Connect started
\* are running, also when that Connect followed a Close of the same instance.
C30_WorkersRun ==
    wsConnected /\ conn \in live => Running(2 * conn - 1) /\ Running(2 * conn)


\* C31: after Close of the duplexed transport, each of the two workers that
\* the closed connection's Connect started eventually returns (unless a panic
\* has ended the process), whatever the worker was doing and whether or not
\* Receive is called again.
C31_WorkersTerminate ==
    \A i \in 1..(2 * MaxConns) :
        (i \in DOMAIN workers /\ StartedBy(i) # conn)
            ~> ((i \in DOMAIN workers /\ workers[i].at = "exit") \/ ~WSAlive)


\* C37: what Receive returns, a frame or an error, comes from the connection
\* that the transport has at that time: a frame was read from it, an error
\* was sent by a worker that its Connect started.
C37_NothingCarriedOver ==
    [][/\ received' # received => received'[Len(received')].gen = conn
       /\ (WSReceive /\ errorChan' # errorChan) => Head(errorChan).of = conn]_vars

\* C38: Receive returns the error of a failed read only when no frame read
\* from that connection before the failure is still in readChan.
C38_FramesBeforeError ==
    [][(WSReceive /\ errorChan' # errorChan /\ Head(errorChan).from = "read"
            /\ Head(errorChan).gen # 0)
          => \A k \in 1..Len(readChan) : readChan[k].gen # Head(errorChan).gen]_vars


\* C32: when Disconnect has returned, the transport is not connected and
\* holds no connection and no process, from whatever state it was called.
C32_DisconnectClosesTransport ==
    \A c \in Callers :
        Returned(c, "Disconnect") => ~tconnected /\ link = "none" /\ ~proc

\* C33: the client goes from not connected to connected only by a Connect
\* that has opened a connection: the transport was not connected before, and
\* is connected, on a connection that is up, after.
C33_ConnectOpensConnection ==
    [][\A c \in Callers :
          Connect(c) /\ ~connected /\ connected'
              => ~tconnected /\ tconnected' /\ link' = "up"]_vars

\* C34: the message that sendRequest hands to the operation is a response: it
\* carries no method, and it carries a result or an error.
C34_OnlyResponsesReturned ==
    \A c \in Callers :
        pc[c] = "got"
            => /\ resp[c].method = ""
               /\ resp[c].result.k # "nil" \/ resp[c].error.set

\* C35: when a Disconnect that found the client connected has returned and an
\* Initialize of another thread has returned too, the client is not
\* initialized and holds no server identity and no capabilities, however the
\* two calls interleaved.
C35_DisconnectWinsOverInitialize ==
    (/\ Returned("c1", "Disconnect")
     /\ pre["c1"].connected
     /\ Returned("c2", "Initialize"))
        => /\ ~(initialized /\ ~connected)
           /\ serverInfo = Nil
           /\ serverCapabilities = Nil

\* C36: a Close of a stream transport that has been called, and waits for the
\* lock of the transport, returns.
C36_CloseReturns ==
    (pc["c1"] = "lock") ~> (pc["c1"] = "done")

\* C39: when TestConnection has returned on a transport that a connected client
\* was using when it was called, the transport is still connected.
C39_TestConnectionKeepsConnection ==
    \A c \in Callers :
        (Returned(c, "TestConnection") /\ pre[c].connected /\ pre[c].tconnected)
            => tconnected

=============================================================================
